---- MODULE Spec2Model ----
(***************************************************************************)
(* LyricFlow Creator: the App component of src/index.tsx as a state        *)
(* machine.  React state is kept twice: the latest value written by a      *)
(* setter (recordingPhase, isRecording, ...) and the value of the last     *)
(* committed render (view), which is what the closures animate,            *)
(* togglePlay, onEnded and the header buttons read.  Handlers of discrete  *)
(* DOM events (click, change) commit synchronously; setters called from a  *)
(* frame callback, a recorder event, a FileReader event, the audio         *)
(* element's ended event or an await continuation are committed by a       *)
(* later Render step.                                                      *)
(*                                                                         *)
(* Time is counted in quarter seconds: FADE_DURATION (0.5 s) is 2 units.   *)
(* Opacities are scaled by FADE_DURATION, so FADE_DURATION stands for 1.0. *)
(* smoothIndexRef is a fixed-point number with SmoothScale units per index.*)
(* Cue times, which parseLrc computes from the digits of a tag, are        *)
(* counted in milliseconds and compared with the audio time in that unit.  *)
(*                                                                         *)
(* Spec is the component.  PureSpec runs the module-level functions        *)
(* (parseLrc, the active-index scan, the scroll interpolator,              *)
(* interpolateColor, getWrappedLines, drawBokeh) one call at a time on     *)
(* arguments drawn from sample sets; call and result belong to it and stay *)
(* constant in Spec.                                                       *)
(***************************************************************************)
EXTENDS Integers, Sequences, FiniteSets, TLC

\* ---------------------------------------------------------------- bounds
MaxStarts == 2          \* startRecording invocations explored
MaxClock == 3           \* Date.now() ranges over 0..MaxClock
Duration == 2           \* length of the loaded audio track
SmoothScale == 2        \* fixed-point resolution of smoothIndexRef
MaxLines == 3           \* lines of an .lrc file handed to parseLrc directly
FineScale == 10000      \* fixed-point resolution of the interpolator run on its own
MaxTicks == 95          \* interpolator updates explored per run
FactorDen == 4          \* interpolation factors are multiples of 1/FactorDen
MaxScroll == 5          \* frames of a scroll run with seeks between them
MaxWords == 3           \* words of a text handed to getWrappedLines
MaxWidth == 6           \* maxWidth ranges over 0..MaxWidth

\* ------------------------------------------------------ program constants
FADE_DURATION == 2      \* 0.5 s
MsPerUnit == 500 \div FADE_DURATION   \* milliseconds in one time unit
maxVisibleDist == 5
SNAP_DISTANCE == 10     \* absDiff > 10 : seek snap
MICRO_INVERSE == 1000   \* absDiff < 0.001 : micro snap
LERP_INVERSE == 10      \* smoothIndex += diff * 0.1

IntroDurations == {0, 2}

NoUrl == <<"null">>

\* ------------------------------------------------------------ LRC parsing
\* A line of an .lrc file is a sequence of tokens: a bracket group
\* "[" mm ":" ss sep frac "]" whose parts mm, ss, frac are digit strings, a
\* run of other non-blank characters, or a run of white space.  A digit
\* string is a sequence over 0..9.  Cue times are counted in milliseconds.
Tag(mm, ss, sep, frac) == [kind |-> "tag", mm |-> mm, ss |-> ss, sep |-> sep, frac |-> frac]
Text(chars) == [kind |-> "text", chars |-> chars]
Space == [kind |-> "space"]

\* timeReg = /\[(\d{2}):(\d{2})[.:](\d{2,3})\]/ on one bracket group
timeReg(tok) ==
  /\ tok.kind = "tag"
  /\ Len(tok.mm) = 2 /\ Len(tok.ss) = 2
  /\ tok.sep \in {".", ":"}
  /\ Len(tok.frac) \in {2, 3}

\* timeReg.exec(line): the position of the leftmost match, 0 for null
Exec(line) ==
  IF \E i \in 1..Len(line) : timeReg(line[i])
  THEN CHOOSE i \in 1..Len(line) :
         timeReg(line[i]) /\ \A j \in 1..(i - 1) : ~timeReg(line[j])
  ELSE 0

\* parseInt(digits, 10)
RECURSIVE parseInt(_)
parseInt(digits) ==
  IF digits = << >> THEN 0
  ELSE 10 * parseInt(SubSeq(digits, 1, Len(digits) - 1)) + digits[Len(digits)]

\* a fraction group read as hundredths whatever its length
msDivisor_Hundredths(frac) == 100

msDivisor(frac) == IF Len(frac) = 3 THEN 1000 ELSE 100

\* minutes * 60 + seconds + milliseconds / msDivisor, in milliseconds
totalSeconds(match) ==
  LET minutes == parseInt(match.mm)
      seconds == parseInt(match.ss)
      milliseconds == parseInt(match.frac)
  IN  (minutes * 60 + seconds) * 1000 + (milliseconds * 1000) \div msDivisor(match.frac)

\* String.prototype.trim() on a token sequence
RECURSIVE TrimStart(_)
TrimStart(toks) ==
  IF toks # << >> /\ Head(toks) = Space THEN TrimStart(Tail(toks)) ELSE toks

RECURSIVE TrimEnd(_)
TrimEnd(toks) ==
  IF toks # << >> /\ toks[Len(toks)] = Space
  THEN TrimEnd(SubSeq(toks, 1, Len(toks) - 1)) ELSE toks

\* no trimming at all
Trim_Nothing(toks) == toks

Trim(toks) == TrimEnd(TrimStart(toks))

\* line.replace(timeReg, ''): the leftmost match is removed
Replace(line) ==
  LET i == Exec(line)
  IN  IF i = 0 THEN line ELSE SubSeq(line, 1, i - 1) \o SubSeq(line, i + 1, Len(line))

\* the files offered to the component's file input
LrcFiles ==
  { << << Text("x") >>, << Tag(<<0, 0>>, <<0, 0>>, ".", <<2, 5>>) >> >>,
    << << Tag(<<0, 0>>, <<0, 0>>, ".", <<5, 0>>), Text("b") >>,
       << Text("x") >>,
       << Tag(<<0, 0>>, <<0, 0>>, ":", <<2, 5, 0>>), Text("a") >> >> }

\* result.sort((a, b) => a.time - b.time): stable insertion into a sorted list
RECURSIVE InsertCue(_, _)
\* insertion in front of the cues of equal time
InsertCue_BeforeEqual(sorted, cue) ==
  IF sorted = << >> THEN << cue >>
  ELSE IF cue.time <= Head(sorted).time THEN << cue >> \o sorted
  ELSE << Head(sorted) >> \o InsertCue(Tail(sorted), cue)

InsertCue(sorted, cue) ==
  IF sorted = << >> THEN << cue >>
  ELSE IF cue.time < Head(sorted).time THEN << cue >> \o sorted
  ELSE << Head(sorted) >> \o InsertCue(Tail(sorted), cue)

RECURSIVE SortCues(_)
SortCues(cues) ==
  IF cues = << >> THEN << >>
  ELSE InsertCue(SortCues(SubSeq(cues, 1, Len(cues) - 1)), cues[Len(cues)])

RECURSIVE AcceptedCues(_)
AcceptedCues(lines) ==
  IF lines = << >> THEN << >>
  ELSE LET line == Head(lines)
           match == Exec(line)
           text == Trim(Replace(line))
       IN  (IF match # 0 /\ text # << >>
            THEN << [time |-> totalSeconds(line[match]), text |-> text] >>
            ELSE << >>) \o AcceptedCues(Tail(lines))

\* the parser without its final sort
parseLrc_Unsorted(lines) == AcceptedCues(lines)

parseLrc(lines) == SortCues(AcceptedCues(lines))

\* --------------------------------------------------------- pure helpers
Max(a, b) == IF a >= b THEN a ELSE b
Min(a, b) == IF a <= b THEN a ELSE b
Abs(a) == IF a < 0 THEN -a ELSE a

\* for (i = 0; i < lyrics.length; i++) if (time >= lyrics[i].time) activeIndex = i; else break;
\* i is the 1-based position, the result the 0-based index of the source
RECURSIVE ScanCues(_, _, _, _)
\* the scan with its comparison turned round
ScanCues_Reversed(ly, time, i, acc) ==
  IF i > Len(ly) THEN acc
  ELSE IF time <= ly[i].time THEN ScanCues(ly, time, i + 1, i - 1)
  ELSE acc

ScanCues(ly, time, i, acc) ==
  IF i > Len(ly) THEN acc
  ELSE IF time >= ly[i].time THEN ScanCues(ly, time, i + 1, i - 1)
  ELSE acc

ActiveIndex(ly, time) == ScanCues(ly, time, 1, 0)

\* an increment of twice the difference
Damp_Twice(diff) == 2 * diff

\* diff * 0.1 in fixed point; a non-zero increment always moves the value
Damp(diff) ==
  IF diff >= 0 THEN (diff + LERP_INVERSE - 1) \div LERP_INVERSE
  ELSE -(((-diff) + LERP_INVERSE - 1) \div LERP_INVERSE)

\* the interpolator without its seek snap
InterpStepAt_NoSeekSnap(scale, smooth, activeIndex) ==
  LET target == activeIndex * scale
      diff == target - smooth
      absDiff == Abs(diff)
  IN  IF absDiff * MICRO_INVERSE < scale THEN target
      ELSE smooth + Damp(diff)

\* the interpolator with absDiff <= 0.001 as the test of its micro snap
InterpStepAt_SnapAtThousandth(scale, smooth, activeIndex) ==
  LET target == activeIndex * scale
      diff == target - smooth
      absDiff == Abs(diff)
  IN  IF absDiff > SNAP_DISTANCE * scale THEN target
      ELSE IF absDiff * MICRO_INVERSE <= scale THEN target
      ELSE smooth + Damp(diff)

\* one update of smoothIndexRef.current, a fixed-point number with scale units per index
InterpStepAt(scale, smooth, activeIndex) ==
  LET target == activeIndex * scale
      diff == target - smooth
      absDiff == Abs(diff)
  IN  IF absDiff > SNAP_DISTANCE * scale THEN target
      ELSE IF absDiff * MICRO_INVERSE < scale THEN target
      ELSE smooth + Damp(diff)

InterpStep(smooth, activeIndex) == InterpStepAt(SmoothScale, smooth, activeIndex)

\* ------------------------------------------------------------- colours
\* A colour string is an optional "#" and a sequence of characters; a hex
\* digit is its value 0..15, any other character is 16.  A factor is a
\* rational with denominator FactorDen, given by its numerator.
Hex(hash, chars) == [hash |-> hash, chars |-> chars]

\* hexToRgb: #rgb is expanded to rrggbb; anything but six hex digits is white
hexToRgb(hex) ==
  LET c == hex.chars
      isHex == \A i \in 1..Len(c) : c[i] \in 0..15
      full == IF Len(c) = 3 /\ isHex
              THEN << c[1], c[1], c[2], c[2], c[3], c[3] >> ELSE c
  IN  IF Len(full) = 6 /\ isHex
      THEN [r |-> 16 * full[1] + full[2],
            g |-> 16 * full[3] + full[4],
            b |-> 16 * full[5] + full[6]]
      ELSE [r |-> 255, g |-> 255, b |-> 255]

\* Math.round of num / den, den > 0: the nearest integer, halves upwards
MathRound(num, den) == (2 * num + den) \div (2 * den)

\* interpolateColor without Math.max(0, Math.min(1, factor))
interpolateColor_Unclamped(color1, color2, factor) ==
  LET c1 == hexToRgb(color1)
      c2 == hexToRgb(color2)
      f == factor
  IN  [r |-> MathRound(c1.r * FactorDen + (c2.r - c1.r) * f, FactorDen),
       g |-> MathRound(c1.g * FactorDen + (c2.g - c1.g) * f, FactorDen),
       b |-> MathRound(c1.b * FactorDen + (c2.b - c1.b) * f, FactorDen)]

\* interpolateColor: the channels of the returned rgb(r, g, b)
interpolateColor(color1, color2, factor) ==
  LET c1 == hexToRgb(color1)
      c2 == hexToRgb(color2)
      f == Max(0, Min(FactorDen, factor))
  IN  [r |-> MathRound(c1.r * FactorDen + (c2.r - c1.r) * f, FactorDen),
       g |-> MathRound(c1.g * FactorDen + (c2.g - c1.g) * f, FactorDen),
       b |-> MathRound(c1.b * FactorDen + (c2.b - c1.b) * f, FactorDen)]

\* ------------------------------------------------------------ word wrap
\* A text is the sequence of its words, the pieces text.split(' ') returns
\* (a doubled blank gives an empty word); a word is a sequence of
\* characters.  A line is a sequence of words joined by single blanks.
\* ctx.measureText(line).width with a font whose characters are one unit
\* wide and whose blank is spaceWidth wide
measureText(line, spaceWidth) ==
  LET RECURSIVE Chars(_)
      Chars(ws) == IF ws = << >> THEN 0 ELSE Len(Head(ws)) + Chars(Tail(ws))
  IN  Chars(line) + spaceWidth * (Len(line) - 1)

RECURSIVE WrapFrom(_, _, _, _, _, _)
\* the loop of getWrappedLines with width <= maxWidth as its test
WrapFrom_AtMost(words, i, currentLine, lines, maxWidth, spaceWidth) ==
  IF i > Len(words) THEN Append(lines, currentLine)
  ELSE IF measureText(Append(currentLine, words[i]), spaceWidth) <= maxWidth
       THEN WrapFrom(words, i + 1, Append(currentLine, words[i]), lines, maxWidth, spaceWidth)
       ELSE WrapFrom(words, i + 1, << words[i] >>, Append(lines, currentLine),
                     maxWidth, spaceWidth)

\* for (let i = 1; i < words.length; i++) { ... } lines.push(currentLine), i 1-based
WrapFrom(words, i, currentLine, lines, maxWidth, spaceWidth) ==
  IF i > Len(words) THEN Append(lines, currentLine)
  ELSE IF measureText(Append(currentLine, words[i]), spaceWidth) < maxWidth
       THEN WrapFrom(words, i + 1, Append(currentLine, words[i]), lines, maxWidth, spaceWidth)
       ELSE WrapFrom(words, i + 1, << words[i] >>, Append(lines, currentLine),
                     maxWidth, spaceWidth)

getWrappedLines(words, maxWidth, spaceWidth) ==
  WrapFrom(words, 2, << words[1] >>, << >>, maxWidth, spaceWidth)

\* ---------------------------------------------------------------- bokeh
\* A real quantity of drawBokeh is kept as the term base + amp * wave(freq * t):
\* base and amp in hundredths, freq in tenths, and t, the particle's phase
\* time * speed + randomBase, in units of 0.00001.
Wave(base, amp, wave, freq, t) ==
  [base |-> base, amp |-> amp, wave |-> wave, freq |-> freq, t |-> t]

particleCount == 15

randomBase(i) == (i * 1337) % 1000

\* the fill of a particle whose colour is whatever fillStyle the canvas was left with
BokehColour_Inherited(ctx, settings, rb, t) == [fillStyle |-> ctx.fillStyle]

\* the colour stops of the radial gradient
BokehColour(ctx, settings, rb, t) ==
  IF settings.bokehAutoColor
  THEN [hsla |-> [hue |-> [gain |-> 50, t |-> t, offset |-> rb, modulo |-> 360],
                  saturation |-> 80, lightness |-> 60]]
  ELSE [rgba |-> hexToRgb(settings.bokehColor)]

\* the arc and gradient of particle i, 0 <= i < particleCount
BokehParticle(ctx, width, height, time, settings, i) ==
  LET rb == randomBase(i)
      t == time * (20 + (rb % 100)) + rb * 100000
      side == IF i % 2 = 0 THEN -1 ELSE 1
  IN  [seed |-> rb,
       composite |-> "screen",
       x |-> Wave(width * 50 + width * 40 * side, width * 20, "sin", 10, t),
       y |-> Wave(height * (20 + 8 * (rb % 10)), height * 15, "cos", 13, t),
       radius |-> IF settings.bokehAutoSize
                  THEN Wave((150 + (rb % 100)) * 100, 8000, "sin", 20, t)
                  ELSE Wave((50 + settings.bokehScale * 4) * 100, 2000, "sin", 30, t),
       alpha |-> Wave(15, 5, "sin", 17, t),
       colour |-> BokehColour(ctx, settings, rb, t)]

\* drawBokeh on a canvas in state ctx: the draw commands, and the canvas
\* state after ctx.restore()
drawBokeh(ctx, width, height, time, settings) ==
  [commands |-> [k \in 1..particleCount |->
                   BokehParticle(ctx, width, height, time, settings, k - 1)],
   ctx |-> ctx]

\* HTMLMediaElement.play(): playback that has ended restarts from 0
Play(a) == [paused |-> FALSE,
            currentTime |-> IF a.currentTime = Duration THEN 0 ELSE a.currentTime]
Pause(a) == [a EXCEPT !.paused = TRUE]

\* ------------------------------------------------------------------ state
VARIABLES
  recordingPhase, isRecording, isPlaying, downloadUrl,   \* useState, latest value
  lyrics, audioLoaded, introDuration,                    \* media.lyrics, media.audioUrl, settings.introDuration
  view,                 \* the state of the last committed render
  audio,                \* the <audio> element: paused, currentTime
  ctxState, awaiting,   \* audioContextRef state; startRecording calls suspended at await actx.resume()
  recorders, mediaRecorderRef, chunksRef,
  oscs, silenceOscRef,
  smoothIndexRef, introStartTimeRef, now,
  rafPending, requestRef,   \* the handles of the frame callbacks not yet run; requestRef.current
  mounted,                  \* the component has not been torn down
  call, result          \* a call of a module-level function, and what it has returned

appVars == << recordingPhase, isRecording, isPlaying, downloadUrl, lyrics, audioLoaded,
              introDuration, view, audio, ctxState, awaiting, recorders, mediaRecorderRef,
              chunksRef, oscs, silenceOscRef, smoothIndexRef, introStartTimeRef, now,
              rafPending, requestRef, mounted >>
pureVars == << call, result >>

vars == << recordingPhase, isRecording, isPlaying, downloadUrl, lyrics, audioLoaded,
           introDuration, view, audio, ctxState, awaiting, recorders, mediaRecorderRef,
           chunksRef, oscs, silenceOscRef, smoothIndexRef, introStartTimeRef, now,
           rafPending, requestRef, mounted, call, result >>

reactVars == << recordingPhase, isRecording, isPlaying, downloadUrl, lyrics >>
recorderVars == << recorders, mediaRecorderRef, chunksRef, oscs, silenceOscRef >>
frameVars == << rafPending, requestRef >>

Snapshot(ph, rec, pl, ly) ==
  [recordingPhase |-> ph, isRecording |-> rec, isPlaying |-> pl, lyrics |-> ly]

NoCall == [fn |-> "none"]
NoResult == [done |-> FALSE, value |-> << >>]

\* the component after its first render
AppInit ==
  /\ recordingPhase = "idle" /\ isRecording = FALSE /\ isPlaying = FALSE
  /\ downloadUrl = NoUrl /\ lyrics = << >> /\ audioLoaded = FALSE
  /\ introDuration \in IntroDurations
  /\ view = Snapshot("idle", FALSE, FALSE, << >>)
  /\ audio = [paused |-> TRUE, currentTime |-> 0]
  /\ ctxState = "none" /\ awaiting = 0
  /\ recorders = << >> /\ mediaRecorderRef = 0 /\ chunksRef = << >>
  /\ oscs = << >> /\ silenceOscRef = 0
  /\ smoothIndexRef = 0 /\ introStartTimeRef = 0 /\ now = 0
  /\ rafPending = {1} /\ requestRef = 1 /\ mounted = TRUE

Init == AppInit /\ call = NoCall /\ result = NoResult

\* ------------------------------------------------------- render / effects
\* useEffect(..., [isPlaying, recordingPhase]): runs when a dependency differs from the last render
SyncPlayEffect(ph, pl, loaded, a) ==
  IF (ph # view.recordingPhase \/ pl # view.isPlaying) /\ ph = "idle" /\ loaded
  THEN (IF pl THEN Play(a) ELSE Pause(a))
  ELSE a

\* requestAnimationFrame: the handle of a callback added to the pending ones.
\* The code keeps a handle only in requestRef.current, which every request
\* overwrites, so the handle of a callback that has run or was cancelled is free
RequestAnimationFrame(pending) == CHOOSE h \in 1..(Cardinality(pending) + 1) : h \notin pending

\* a cleanup that leaves the requested callback pending
AnimateCleanup_NoCancel(pending, ref) == pending

\* the cleanup of useEffect(..., [animate]): if (requestRef.current) cancelAnimationFrame(requestRef.current)
AnimateCleanup(pending, ref) == IF ref # 0 THEN pending \ {ref} ELSE pending

\* useEffect(..., [animate]): animate is a new callback when media.lyrics or
\* recordingPhase differs from the last render; the cleanup runs, then the effect
AnimateEffect(ph, ly) ==
  IF ph # view.recordingPhase \/ ly # view.lyrics
  THEN LET pending == AnimateCleanup(rafPending, requestRef)
       IN  /\ requestRef' = RequestAnimationFrame(pending)
           /\ rafPending' = pending \cup {requestRef'}
  ELSE UNCHANGED frameVars

\* a commit of the state (ph, rec, pl, ly) with the audio element in state a
Commit(ph, rec, pl, ly, loaded, a) ==
  /\ view' = Snapshot(ph, rec, pl, ly)
  /\ audio' = SyncPlayEffect(ph, pl, loaded, a)
  /\ AnimateEffect(ph, ly)

RenderPending == view # Snapshot(recordingPhase, isRecording, isPlaying, lyrics)

Render ==
  /\ RenderPending
  /\ Commit(recordingPhase, isRecording, isPlaying, lyrics, audioLoaded, audio)
  /\ UNCHANGED << reactVars, audioLoaded, introDuration, ctxState, awaiting, recorderVars,
                  smoothIndexRef, introStartTimeRef, now, pureVars, mounted >>

\* ------------------------------------------------------------ file input
\* handleFileUpload(e, 'audio'): a change event; the element (re)loads its src
UploadAudio ==
  /\ audioLoaded' = TRUE
  /\ Commit(recordingPhase, isRecording, isPlaying, lyrics, TRUE,
            [paused |-> TRUE, currentTime |-> 0])
  /\ UNCHANGED << reactVars, introDuration, ctxState, awaiting, recorderVars,
                  smoothIndexRef, introStartTimeRef, now, pureVars, mounted >>

\* reader.onload of handleFileUpload(e, 'lrc')
LrcLoaded(file) ==
  /\ lyrics' = parseLrc(file)
  /\ smoothIndexRef' = 0
  /\ UNCHANGED << recordingPhase, isRecording, isPlaying, downloadUrl, audioLoaded,
                  introDuration, view, audio, ctxState, awaiting, recorderVars,
                  introStartTimeRef, now, pureVars,
                  frameVars, mounted >>

\* --------------------------------------------------------------- animate
\* the intro end test off by one time unit
IntroFinished_Late(elapsed, duration) == elapsed > duration + 1

IntroFinished(elapsed, duration) == elapsed > duration

\* a title that never fades
TitleOpacity_Full(remaining) == FADE_DURATION

TitleOpacity(remaining) ==
  IF remaining < FADE_DURATION THEN Max(0, remaining) ELSE FADE_DURATION

LyricsOpacity(time) ==
  IF time < FADE_DURATION THEN Min(FADE_DURATION, time) ELSE FADE_DURATION

\* handleIntroComplete without the call of audio.play()
HandleIntroComplete_NoPlay ==
  /\ recordingPhase' = "recording"
  /\ IF audioLoaded
     THEN audio' = audio /\ isPlaying' = TRUE
     ELSE UNCHANGED << audio, isPlaying >>

\* handleIntroComplete
HandleIntroComplete ==
  /\ recordingPhase' = "recording"
  /\ IF audioLoaded
     THEN audio' = Play(audio) /\ isPlaying' = TRUE
     ELSE UNCHANGED << audio, isPlaying >>

\* the arguments animate passes to renderFrame when it runs in the current state
TickIntro == view.recordingPhase = "intro"
TickElapsed == now - introStartTimeRef
TickFinished == TickIntro /\ IntroFinished(TickElapsed, introDuration)
TickTime == IF ~TickIntro /\ audioLoaded THEN audio.currentTime ELSE 0
\* the tick's time in the unit of cue times, as the scan of media.lyrics reads it
TickCueTime == TickTime * MsPerUnit
TickActiveIndex == ActiveIndex(view.lyrics, TickCueTime)

TickFrame ==
  [isIntro |-> TickIntro /\ ~TickFinished,
   titleOpacity |-> IF TickIntro THEN TitleOpacity(introDuration - TickElapsed)
                    ELSE IF audioLoaded THEN 0 ELSE FADE_DURATION,
   lyricsOpacity |-> IF TickIntro THEN 0
                     ELSE IF audioLoaded THEN LyricsOpacity(TickTime) ELSE FADE_DURATION,
   currentTime |-> TickTime,
   lyrics |-> view.lyrics,
   smoothActiveIndex |-> InterpStep(smoothIndexRef, TickActiveIndex)]

\* animate: one frame callback
Tick ==
  /\ IF TickFinished THEN HandleIntroComplete
     ELSE UNCHANGED << recordingPhase, audio, isPlaying >>
  /\ smoothIndexRef' = TickFrame.smoothActiveIndex
  /\ \E handle \in rafPending :
       LET pending == rafPending \ {handle}
       IN  /\ requestRef' = RequestAnimationFrame(pending)
           /\ rafPending' = pending \cup {requestRef'}
  /\ UNCHANGED << isRecording, downloadUrl, lyrics, audioLoaded, introDuration, view,
                  ctxState, awaiting, recorderVars, introStartTimeRef, now, pureVars,
                  mounted >>

\* ----------------------------------------------------------- renderFrame
\* the alpha of a lyric line in thousandths, without the global fade-in
LineAlpha_NoFade(absDist, lyricsOpacity) ==
  IF absDist > 2 * SmoothScale
  THEN Max(0, 1000 - ((absDist - 2 * SmoothScale) * 400) \div SmoothScale) * FADE_DURATION
  ELSE 1000 * FADE_DURATION

\* the alpha of a lyric line at absDist (in units of 1 / SmoothScale) from the
\* scroll position, in thousandths of 1 / FADE_DURATION; lines are numbered from 0
LineAlpha(absDist, lyricsOpacity) ==
  (IF absDist > 2 * SmoothScale
   THEN Max(0, 1000 - ((absDist - 2 * SmoothScale) * 400) \div SmoothScale)
   ELSE 1000) * lyricsOpacity

\* what renderFrame draws in the text panel: the title block and its
\* globalAlpha, and the lyric lines that pass the alpha <= 0.01 test
renderFrame(frame) ==
  IF frame.isIntro
  THEN [title |-> TRUE, globalAlpha |-> frame.titleOpacity, lines |-> {}]
  ELSE LET startIndex == Max(0, frame.smoothActiveIndex \div SmoothScale - maxVisibleDist)
           endIndex == Min(Len(frame.lyrics) - 1,
                           (frame.smoothActiveIndex + SmoothScale - 1) \div SmoothScale
                             + maxVisibleDist)
           absDist(i) == Abs(i * SmoothScale - frame.smoothActiveIndex)
       IN  [title |-> FALSE, globalAlpha |-> 0,
            lines |-> { i \in startIndex..endIndex :
                          ~(LineAlpha(absDist(i), frame.lyricsOpacity)
                              <= 10 * FADE_DURATION) }]

\* ------------------------------------------------------------- recording
\* the body of startRecording from step 3 on; outcome: "ok", the MediaRecorder
\* constructor throws ("ctor") or recorder.start() throws ("start")
StartBody(outcome) ==
  /\ oscs' = Append(oscs, TRUE)
  /\ silenceOscRef' = Len(oscs) + 1
  /\ IF outcome = "ctor"
     THEN UNCHANGED << recorders, mediaRecorderRef, chunksRef >>
     ELSE /\ recorders' = Append(recorders, IF outcome = "ok" THEN "recording" ELSE "inactive")
          /\ mediaRecorderRef' = Len(recorders) + 1
          /\ chunksRef' = << >>
  /\ IF outcome = "ok"
     THEN /\ isRecording' = TRUE
          /\ downloadUrl' = NoUrl
          /\ smoothIndexRef' = 0
          /\ introStartTimeRef' = now
          /\ recordingPhase' = "intro"
     ELSE UNCHANGED << isRecording, downloadUrl, smoothIndexRef, introStartTimeRef,
                       recordingPhase >>

\* the start of the intro phase without audio.pause()
AudioAfterStart_NoPause(outcome) ==
  IF outcome = "ok" THEN [audio EXCEPT !.currentTime = 0] ELSE audio

\* the start of the intro phase without audio.currentTime = 0
AudioAfterStart_NoRewind(outcome) ==
  IF outcome = "ok" THEN [audio EXCEPT !.paused = TRUE] ELSE audio

\* audioRef.current.currentTime = 0; audioRef.current.pause()
AudioAfterStart(outcome) ==
  IF outcome = "ok" THEN [paused |-> TRUE, currentTime |-> 0] ELSE audio

StartOutcomes == {"ok", "ctor", "start"}

\* the Record Video button disabled only by a missing audio file
RecordButtonEnabled_AudioOnly == ~view.isRecording /\ audioLoaded

\* the Record Video button
RecordButtonEnabled == ~view.isRecording /\ audioLoaded /\ Len(view.lyrics) > 0

\* click on Record Video: runs to the await, or to the end when the context is running
StartClick(created, outcome) ==
  /\ RecordButtonEnabled
  /\ Len(oscs) + awaiting < MaxStarts
  /\ ctxState' = IF ctxState = "none" THEN created ELSE ctxState
  /\ IF ctxState' = "suspended"
     THEN /\ awaiting' = awaiting + 1
          /\ outcome = "ok"
          /\ UNCHANGED << reactVars, view, audio, recorderVars, smoothIndexRef,
                          introStartTimeRef, frameVars >>
     ELSE /\ StartBody(outcome)
          /\ Commit(recordingPhase', isRecording', isPlaying, lyrics,
                    audioLoaded, AudioAfterStart(outcome))
          /\ UNCHANGED << awaiting, isPlaying, lyrics >>
  /\ UNCHANGED << audioLoaded, introDuration, now, pureVars, mounted >>

\* the continuation of startRecording after await actx.resume(); a rejection is caught and logged
StartResume(resolved, outcome) ==
  /\ awaiting > 0
  /\ awaiting' = awaiting - 1
  /\ ctxState' = IF resolved THEN "running" ELSE ctxState
  /\ StartBody(outcome)
  /\ audio' = AudioAfterStart(outcome)
  /\ UNCHANGED << isPlaying, lyrics, audioLoaded, introDuration, view, now, pureVars,
                  frameVars, mounted >>

\* stopRecording, called with the audio element in state a; a recorder whose
\* stop task is queued ("stopping") already reports the state 'inactive'
StopRecordingOn(a) ==
  IF mediaRecorderRef # 0 /\ recorders[mediaRecorderRef] = "recording"
  THEN /\ recorders' = [recorders EXCEPT ![mediaRecorderRef] = "stopping"]
       /\ audio' = IF audioLoaded THEN Pause(a) ELSE a
  ELSE /\ recorders' = recorders
       /\ audio' = a

StopRecording == StopRecordingOn(audio)

\* the Stop Recording button
StopClick ==
  /\ view.isRecording
  /\ StopRecording
  /\ UNCHANGED << reactVars, audioLoaded, introDuration, view, ctxState, awaiting,
                  mediaRecorderRef, chunksRef, oscs, silenceOscRef, smoothIndexRef,
                  introStartTimeRef, now, pureVars,
                  frameVars, mounted >>

\* togglePlay
TogglePlay ==
  IF view.isRecording
  THEN /\ StopRecording
       /\ UNCHANGED << reactVars, audioLoaded, introDuration, view, ctxState, awaiting,
                       mediaRecorderRef, chunksRef, oscs, silenceOscRef, smoothIndexRef,
                       introStartTimeRef, now, pureVars, frameVars, mounted >>
  ELSE /\ isPlaying' = ~view.isPlaying
       /\ Commit(recordingPhase, isRecording, isPlaying', lyrics, audioLoaded, audio)
       /\ UNCHANGED << recordingPhase, isRecording, downloadUrl, lyrics, audioLoaded,
                       introDuration, ctxState, awaiting, recorderVars, smoothIndexRef,
                       introStartTimeRef, now, pureVars, mounted >>

\* the stop task of recorder k: dataavailable, then onstop
RecorderStopTask(k, hasData) ==
  /\ k \in 1..Len(recorders) /\ recorders[k] = "stopping"
  /\ recorders' = [recorders EXCEPT ![k] = "inactive"]
  /\ downloadUrl' = << "blob" >> \o (IF hasData THEN Append(chunksRef, k) ELSE chunksRef)
  /\ chunksRef' = << >>
  /\ recordingPhase' = "idle"
  /\ isRecording' = FALSE
  /\ isPlaying' = FALSE
  /\ IF silenceOscRef # 0
     THEN oscs' = [oscs EXCEPT ![silenceOscRef] = FALSE] /\ silenceOscRef' = 0
     ELSE UNCHANGED << oscs, silenceOscRef >>
  /\ UNCHANGED << lyrics, audioLoaded, introDuration, view, audio, ctxState, awaiting,
                  mediaRecorderRef, smoothIndexRef, introStartTimeRef, now, pureVars,
                  frameVars, mounted >>

\* --------------------------------------------------- audio element, clock
\* the progress bar
Seek(t) ==
  /\ audioLoaded
  /\ t # audio.currentTime
  /\ audio' = [audio EXCEPT !.currentTime = t]
  /\ UNCHANGED << reactVars, audioLoaded, introDuration, view, ctxState, awaiting,
                  recorderVars, smoothIndexRef, introStartTimeRef, now, pureVars,
                  frameVars, mounted >>

\* playback advances by one time unit; a scheduled render is committed before
\* a time unit passes
AudioAdvance ==
  /\ audioLoaded /\ ~audio.paused /\ audio.currentTime < Duration
  /\ ~RenderPending
  /\ audio' = [audio EXCEPT !.currentTime = @ + 1]
  /\ UNCHANGED << reactVars, audioLoaded, introDuration, view, ctxState, awaiting,
                  recorderVars, smoothIndexRef, introStartTimeRef, now, pureVars,
                  frameVars, mounted >>

\* playback reaches the end: the element pauses and onEnded runs
AudioEnded ==
  /\ audioLoaded /\ ~audio.paused /\ audio.currentTime = Duration
  /\ isPlaying' = FALSE
  /\ IF view.isRecording THEN StopRecordingOn(Pause(audio))
     ELSE recorders' = recorders /\ audio' = Pause(audio)
  /\ UNCHANGED << recordingPhase, isRecording, downloadUrl, lyrics, audioLoaded,
                  introDuration, view, ctxState, awaiting, mediaRecorderRef, chunksRef,
                  oscs, silenceOscRef, smoothIndexRef, introStartTimeRef, now, pureVars,
                  frameVars, mounted >>

\* Date.now() is read only by startRecording and by the intro branch of animate,
\* so the clock is advanced only while an intro is in progress or in view; a
\* scheduled render is committed before a time unit passes
ClockAdvance ==
  /\ now < MaxClock
  /\ recordingPhase = "intro" \/ view.recordingPhase = "intro"
  /\ ~RenderPending
  /\ now' = now + 1
  /\ UNCHANGED << reactVars, audioLoaded, introDuration, view, audio, ctxState, awaiting,
                  recorderVars, smoothIndexRef, introStartTimeRef, pureVars,
                  frameVars, mounted >>

\* ---------------------------------------------------------- specification
Next ==
  \/ UploadAudio
  \/ \E file \in LrcFiles : LrcLoaded(file)
  \/ Render
  \/ Tick
  \/ \E created \in {"suspended", "running"}, outcome \in StartOutcomes : StartClick(created, outcome)
  \/ \E resolved \in BOOLEAN, outcome \in StartOutcomes : StartResume(resolved, outcome)
  \/ StopClick
  \/ TogglePlay
  \/ \E k \in 1..MaxStarts, hasData \in BOOLEAN : RecorderStopTask(k, hasData)
  \/ \E t \in 0..Duration : Seek(t)
  \/ AudioAdvance
  \/ AudioEnded
  \/ ClockAdvance

Spec == Init /\ [][Next]_vars

\* the component is torn down: the cleanup of the animation effect runs
Unmount ==
  /\ mounted
  /\ mounted' = FALSE
  /\ rafPending' = AnimateCleanup(rafPending, requestRef)
  /\ UNCHANGED << reactVars, audioLoaded, introDuration, view, audio, ctxState, awaiting,
                  recorderVars, smoothIndexRef, introStartTimeRef, now, requestRef,
                  pureVars >>

LifeNext ==
  \/ mounted /\ Next
  \/ Unmount

\* the component from its first render to its teardown
LifeSpec == Init /\ [][LifeNext]_vars

\* ------------------------------------------ functions called on their own
\* The module-level functions are also specified one call at a time: Init
\* draws the arguments of a call, the action evaluates the function on them.
SampleLines ==
  { << Tag(<<0, 0>>, <<0, 1>>, ".", <<5, 0>>), Text("one") >>,
    << Tag(<<0, 0>>, <<0, 1>>, ":", <<5, 0, 0>>), Space, Text("uno") >>,
    << Text("la"), Tag(<<0, 1>>, <<0, 0>>, ".", <<0, 5>>) >>,
    << Tag(<<0, 0>>, <<0, 0>>, ".", <<2, 5>>), Tag(<<0, 2>>, <<0, 0>>, ".", <<0, 0>>) >>,
    << Tag(<<0, 0>>, <<0, 2>>, ".", <<0, 0>>), Space >>,
    << Tag(<<0, 0>>, <<0, 3>>, ".", <<0, 0>>) >>,
    << Tag(<<0>>, <<0, 3>>, ".", <<0, 0>>), Text("short") >>,
    << Tag(<<0, 0>>, <<0, 3>>, "-", <<0, 0>>), Text("dash") >>,
    << Tag(<<0, 0>>, <<0, 3>>, ".", <<0, 0, 0, 0>>), Text("long") >>,
    << Text("plain") >>,
    << >> }

SampleFiles == UNION { [1..n -> SampleLines] : n \in 0..MaxLines }

SampleTimes == {0, 249, 1500, 60050}

ActiveIndexCalls ==
  [fn : {"activeIndex"}, lrcContent : SampleFiles, t1 : SampleTimes, t2 : SampleTimes]

ParseLrcCalls == [fn : {"parseLrc"}, lrcContent : SampleFiles]

\* the interpolator run from smoothIndex (in half indices) towards a fixed activeIndex
InterpolateCalls ==
  [fn : {"interpolate"}, smoothIndex : { k * (FineScale \div 2) : k \in 0..30 },
   activeIndex : {0, 3, 12, 15}]

SampleColours ==
  { Hex(TRUE, << 0, 0, 0 >>), Hex(FALSE, << 15, 15, 15, 15, 15, 15 >>),
    Hex(TRUE, << 15, 15, 8, 0, 0, 0 >>), Hex(TRUE, << 1, 2, 3 >>),
    Hex(FALSE, << 0, 10, 1, 4, 1, 15 >>),
    Hex(TRUE, << 1, 2 >>), Hex(TRUE, << 16, 0, 0 >>) }

InterpolateColorCalls ==
  [fn : {"interpolateColor"}, color1 : SampleColours, color2 : SampleColours,
   factor : (-FactorDen)..(2 * FactorDen)]

SampleWords == { << >>, << "a" >>, << "b", "b" >>, << "c", "c", "c", "c" >> }

GetWrappedLinesCalls ==
  [fn : {"getWrappedLines"},
   text : UNION { [1..n -> SampleWords] : n \in 1..MaxWords },
   maxWidth : 0..MaxWidth, spaceWidth : {1, 2}]

\* what the canvas context was left with by the drawing before a call
CanvasStates ==
  [fillStyle : {"#000000", "rgb(77, 58, 38)"},
   globalCompositeOperation : {"source-over", "lighter"}]

BokehSettings ==
  [bokehAutoSize : BOOLEAN, bokehAutoColor : BOOLEAN, bokehScale : {0, 50},
   bokehColor : { Hex(TRUE, << 15, 15, 8, 0, 0, 0 >>), Hex(TRUE, << 1, 2 >>) }]

\* two calls with the same arguments, each on a canvas in a state of its own
DrawBokehCalls ==
  [fn : {"drawBokeh"}, width : {1280, 1920}, height : {720}, time : {0, 16, 60000},
   settings : BokehSettings, ctx : [1..2 -> CanvasStates]]

\* a file of twelve cues, at 1 s, 2 s, ..., 12 s
LongFile ==
  [k \in 1..12 |-> << Tag(<< 0, 0 >>, << k \div 10, k % 10 >>, ".", << 0, 0 >>), Text("la") >>]

\* the scroll logic of animate run frame by frame over one timeline, the
\* audio position moved freely between the frames
ScrollCalls ==
  [fn : {"scroll"},
   lrcContent : { << >>, LongFile, SubSeq(LongFile, 1, 1), SubSeq(LongFile, 11, 12) }]

SeekTimes == {0, 2000, 11500, 12000}

Calls == ActiveIndexCalls \cup ParseLrcCalls \cup InterpolateCalls \cup InterpolateColorCalls
           \cup GetWrappedLinesCalls \cup DrawBokehCalls \cup ScrollCalls

PureInit == AppInit /\ introDuration = 0 /\ call \in Calls /\ result = NoResult

Return(value) ==
  /\ ~result.done
  /\ result' = [done |-> TRUE, value |-> value]
  /\ UNCHANGED << appVars, call >>

\* the scan of animate over a parsed file, at two times
CallActiveIndex ==
  /\ call.fn = "activeIndex"
  /\ LET timeline == parseLrc(call.lrcContent)
     IN  Return(<< ActiveIndex(timeline, call.t1), ActiveIndex(timeline, call.t2) >>)

CallParseLrc ==
  /\ call.fn = "parseLrc"
  /\ Return(parseLrc(call.lrcContent))

\* the value of smoothIndexRef.current in a run of the interpolator
Smooth == IF result.done THEN result.value.smoothIndex ELSE call.smoothIndex
Ticks == IF result.done THEN result.value.ticks ELSE 0

\* one more frame of a run with a fixed activeIndex
InterpolateTick ==
  /\ call.fn = "interpolate"
  /\ Ticks < MaxTicks
  /\ result' = [done |-> TRUE,
                value |-> [smoothIndex |-> InterpStepAt(FineScale, Smooth, call.activeIndex),
                           previous |-> Smooth,
                           ticks |-> Ticks + 1]]
  /\ UNCHANGED << appVars, call >>

CallInterpolateColor ==
  /\ call.fn = "interpolateColor"
  /\ Return(interpolateColor(call.color1, call.color2, call.factor))

CallGetWrappedLines ==
  /\ call.fn = "getWrappedLines"
  /\ Return(getWrappedLines(call.text, call.maxWidth, call.spaceWidth))

\* the draw commands of the calls of drawBokeh made so far
Drawn == IF result.done THEN result.value ELSE << >>

\* the next of the two calls of drawBokeh
CallDrawBokeh ==
  /\ call.fn = "drawBokeh"
  /\ Len(Drawn) < 2
  /\ result' = [done |-> TRUE,
                value |-> Append(Drawn, drawBokeh(call.ctx[Len(Drawn) + 1], call.width,
                                                  call.height, call.time,
                                                  call.settings).commands)]
  /\ UNCHANGED << appVars, call >>

\* one frame of a scroll run at audio position time; smoothIndexRef starts at 0
ScrollTick(time) ==
  /\ call.fn = "scroll"
  /\ Ticks < MaxScroll
  /\ LET smooth == IF result.done THEN result.value.smoothIndex ELSE 0
         activeIndex == ActiveIndex(parseLrc(call.lrcContent), time)
     IN  result' = [done |-> TRUE,
                    value |-> [smoothIndex |-> InterpStepAt(FineScale, smooth, activeIndex),
                               previous |-> smooth,
                               activeIndex |-> activeIndex,
                               ticks |-> Ticks + 1]]
  /\ UNCHANGED << appVars, call >>

PureNext ==
  \/ \E time \in SeekTimes : ScrollTick(time)
  \/ CallActiveIndex
  \/ CallParseLrc
  \/ InterpolateTick
  \/ CallInterpolateColor
  \/ CallGetWrappedLines
  \/ CallDrawBokeh

PureSpec == PureInit /\ [][PureNext]_vars

\* ------------------------------------------------------------------ claims
PhaseEdges == { << "idle", "intro" >>, << "intro", "recording" >>,
                << "intro", "idle" >>, << "recording", "idle" >> }

\* C1: the recording phase changes only along idle->intro, intro->recording,
\* intro->idle and recording->idle, over every sequence of events, stale ticks included
C1_PhaseEdgesOnly ==
  [][recordingPhase' # recordingPhase => << recordingPhase, recordingPhase' >> \in PhaseEdges]_vars

RecordingRecorders == { k \in 1..Len(recorders) : recorders[k] = "recording" }
RunningOscillators == { k \in 1..Len(oscs) : oscs[k] }

\* C2: at most one capture recorder is ever in the recording state
C2_SingleRecorder == Cardinality(RecordingRecorders) <= 1

\* a step of startRecording in which the context resume was rejected, the
\* MediaRecorder constructor threw or recorder.start() threw
StartFailedStep ==
  \/ \E outcome \in StartOutcomes : StartResume(FALSE, outcome)
  \/ \E resolved \in BOOLEAN, outcome \in {"ctor", "start"} : StartResume(resolved, outcome)
  \/ \E created \in {"suspended", "running"}, outcome \in {"ctor", "start"} :
       StartClick(created, outcome)

StartAborted ==
  /\ recordingPhase = "idle" => recordingPhase' = "idle"
  /\ ~isRecording => ~isRecording'
  /\ RecordingRecorders' = RecordingRecorders
  /\ introStartTimeRef' = introStartTimeRef
  /\ audio'.currentTime = audio.currentTime
  /\ downloadUrl' = downloadUrl

\* C3: a start attempt whose context resume fails, or whose recorder cannot be
\* constructed or started, aborts: phase and isRecording stay, no recorder is
\* left recording, intro timestamp, audio position and artifact are untouched
C3_FailedStartAborts == [][StartFailedStep => StartAborted]_vars

\* the browser delivers queued events, settles promises, runs frame callbacks,
\* plays unpaused audio, and React commits scheduled renders
FairSpec ==
  /\ Spec
  /\ WF_vars(Render)
  /\ WF_vars(Tick)
  /\ WF_vars(\E k \in 1..MaxStarts, hasData \in BOOLEAN : RecorderStopTask(k, hasData))
  /\ WF_vars(\E resolved \in BOOLEAN, outcome \in StartOutcomes : StartResume(resolved, outcome))
  /\ WF_vars(AudioAdvance)
  /\ WF_vars(AudioEnded)

StopInvoked ==
  /\ mediaRecorderRef # 0 /\ recorders[mediaRecorderRef] = "stopping"
  /\ recordingPhase \in {"intro", "recording"}

SessionFinalized ==
  /\ recordingPhase = "idle"
  /\ mediaRecorderRef # 0 /\ recorders[mediaRecorderRef] = "inactive"
  /\ downloadUrl # NoUrl
  /\ silenceOscRef = 0
  /\ audio.paused
  /\ ~isPlaying

\* C4: after stopRecording is invoked in the intro or recording phase, the system
\* eventually is idle with the recorder inactive, the artifact URL set, the
\* oscillator released, the audio paused and the playing flag false
C4_StopReachesIdle == StopInvoked ~> SessionFinalized

\* a step that begins a startRecording call
StartRequestStep ==
  \/ awaiting' = awaiting + 1
  \/ Len(oscs') > Len(oscs) /\ awaiting' = awaiting

\* C5: a start recording request is made only with an audio file loaded and a
\* rendered timeline of at least one cue, and the phase leaves idle for intro
\* only in a step of startRecording
C5_StartNeedsAudioAndLyrics ==
  [][ /\ StartRequestStep => audioLoaded /\ Len(view.lyrics) > 0
      /\ (recordingPhase = "idle" /\ recordingPhase' = "intro")
           => Len(recorders') = Len(recorders) + 1 ]_vars

W5_SessionStarted ==
  /\ recordingPhase = "intro" /\ Len(recorders) = 1
  /\ audioLoaded /\ Len(view.lyrics) > 0

\* the frame callback, run in the current state, requests the recording phase
\* and leaves the audio playing
TickRequestsRecording == ENABLED (Tick /\ recordingPhase' = "recording" /\ ~audio'.paused)
TickChangesPhase == ENABLED (Tick /\ recordingPhase' # recordingPhase)

\* C6 as stated: an intro tick with elapsed >= introDuration (equality included)
\* requests the recording phase, starts playback and composes with isIntro false
C6_TransitionAtOrAfterDuration ==
  (TickIntro /\ TickElapsed >= introDuration)
    => (TickRequestsRecording /\ ~TickFrame.isIntro)

\* C6 amended: an intro tick with elapsed > introDuration requests the recording
\* phase, starts playback and composes with isIntro false; at elapsed =
\* introDuration the tick keeps the phase and composes an intro frame of opacity 0
C6_TransitionAfterDuration ==
  /\ (TickIntro /\ TickElapsed > introDuration)
       => (TickRequestsRecording /\ ~TickFrame.isIntro)
  /\ (TickIntro /\ TickElapsed = introDuration)
       => (~TickChangesPhase /\ TickFrame.isIntro /\ TickFrame.titleOpacity = 0)

W6_TransitionTickRan ==
  /\ TickIntro /\ TickElapsed > introDuration /\ introDuration > 0
  /\ recordingPhase = "recording" /\ ~audio.paused /\ isPlaying

SessionActive == mediaRecorderRef # 0 /\ recorders[mediaRecorderRef] = "recording"

\* C7: the end of the audio during an active session stops the session as a
\* manual stop does and the stop task finalizes it into idle; without a session
\* the ended event only clears the playing flag
C7_EndedStopsSession ==
  [][ /\ AudioEnded =>
           /\ ~isPlaying'
           /\ IF SessionActive
              THEN recorders' = [recorders EXCEPT ![mediaRecorderRef] = "stopping"]
                   /\ audio'.paused
              ELSE recorders' = recorders
           /\ UNCHANGED << recordingPhase, isRecording, downloadUrl, mediaRecorderRef,
                           chunksRef, oscs, silenceOscRef, smoothIndexRef >>
      /\ (\E k \in 1..MaxStarts, hasData \in BOOLEAN : RecorderStopTask(k, hasData)) =>
           /\ recordingPhase' = "idle" /\ ~isRecording' /\ ~isPlaying'
           /\ downloadUrl' # NoUrl ]_vars

\* C8 as stated: with introDuration = 0 every intro tick, the first included,
\* performs the transition and no intro frame shows the title
C8_ZeroIntroFirstTick ==
  (TickIntro /\ introDuration = 0)
    => (TickRequestsRecording /\ ~(TickFrame.isIntro /\ TickFrame.titleOpacity > 0))

\* C8 amended: with introDuration = 0 an intro tick performs the transition as
\* soon as the clock has moved past the intro start; a tick at elapsed 0 composes
\* an intro frame of title opacity 0; no intro frame shows the title
C8_ZeroIntroNoTitle ==
  (TickIntro /\ introDuration = 0)
    => /\ ~(TickFrame.isIntro /\ TickFrame.titleOpacity > 0)
       /\ TickElapsed > 0 => TickRequestsRecording
       /\ TickElapsed = 0 => (TickFrame.isIntro /\ TickFrame.titleOpacity = 0)

W8_ZeroIntroTransition ==
  /\ introDuration = 0 /\ TickIntro /\ TickElapsed = 1
  /\ recordingPhase = "recording" /\ ~audio.paused

\* C9: whenever the phase is intro the audio element is paused
C9_IntroAudioPaused == recordingPhase = "intro" => audio.paused

W9_IntroWithPlayingFlag ==
  /\ recordingPhase = "intro" /\ view.recordingPhase = "intro"
  /\ isPlaying /\ audio.paused

\* the last cue at or before time, as a 0-based index; none when no cue qualifies
CuesAtOrBefore(ly, time) == { i \in 1..Len(ly) : ly[i].time <= time }
LastCueIndex(ly, time, none) ==
  IF CuesAtOrBefore(ly, time) = {} THEN none
  ELSE (CHOOSE i \in CuesAtOrBefore(ly, time) :
          \A j \in CuesAtOrBefore(ly, time) : j <= i) - 1

\* C10 as stated: the active index of a tick is the index of the last cue at or
\* before the tick's time, 0 when no cue qualifies, and -1 exactly when the
\* timeline is empty
C10_ActiveIndexWithSentinel ==
  TickActiveIndex = IF view.lyrics = << >> THEN -1
                    ELSE LastCueIndex(view.lyrics, TickCueTime, 0)

\* C10 amended: the active index of a tick is the index of the last cue at or
\* before the tick's time, and 0 when no cue qualifies or the timeline is empty
C10_ActiveIndexLastCue ==
  TickActiveIndex = LastCueIndex(view.lyrics, TickCueTime, 0)

W10_SecondCueActive ==
  /\ Len(view.lyrics) = 2 /\ TickTime = 2 /\ TickActiveIndex = 1
  /\ smoothIndexRef > 0

\* C11: over a timeline returned by parseLrc the active index does not
\* decrease when the time increases, and it is 0 at any time before the first cue
C11_ActiveIndexMonotone ==
  call.fn = "activeIndex" /\ result.done =>
    LET timeline == parseLrc(call.lrcContent)
    IN  /\ call.t1 <= call.t2 => result.value[1] <= result.value[2]
        /\ timeline # << >> /\ call.t1 < timeline[1].time => result.value[1] = 0
        /\ timeline # << >> /\ call.t2 < timeline[1].time => result.value[2] = 0

W11_IndexAdvanced ==
  /\ call.fn = "activeIndex" /\ result.done
  /\ Len(parseLrc(call.lrcContent)) = 3
  /\ call.t1 < parseLrc(call.lrcContent)[1].time
  /\ call.t1 < call.t2
  /\ result.value = << 0, 2 >>

\* C12: whatever the order of the lines, the sequence parseLrc returns is
\* non-decreasing in time and is a rearrangement of the accepted cues that
\* keeps cues of equal time in their input order
C12_SortedStablePermutation ==
  call.fn = "parseLrc" /\ result.done =>
    LET accepted == AcceptedCues(call.lrcContent)
        out == result.value
    IN  /\ Len(out) = Len(accepted)
        /\ \A i \in 1..(Len(out) - 1) : out[i].time <= out[i + 1].time
        /\ \E p \in Permutations(1..Len(out)) :
             /\ \A i \in 1..Len(out) : out[i] = accepted[p[i]]
             /\ \A i, j \in 1..Len(out) :
                  i < j /\ out[i].time = out[j].time => p[i] < p[j]

W12_ReorderedWithTie ==
  /\ call.fn = "parseLrc" /\ result.done
  /\ Len(result.value) = 3
  /\ result.value # AcceptedCues(call.lrcContent)
  /\ result.value[2].time = result.value[3].time
  /\ result.value[2].text # result.value[3].text

\* a line that holds a valid timestamp tag and, the leftmost such tag taken
\* out, something other than white space
HasTag(line) == \E i \in 1..Len(line) : timeReg(line[i])
FirstTag(line) == CHOOSE i \in 1..Len(line) :
                    timeReg(line[i]) /\ \A j \in 1..(i - 1) : ~timeReg(line[j])
Qualifies(line) ==
  HasTag(line) /\ \E j \in 1..Len(line) : j # FirstTag(line) /\ line[j] # Space

\* C13: parseLrc returns one cue for each line with a valid timestamp tag and
\* non-blank text besides it and none for any other line; it has a value, a
\* sequence no longer than the input, on every input; there are never more
\* cues than lines and no cue has empty text
C13_OneCuePerQualifyingLine ==
  call.fn = "parseLrc" =>
    LET lines == call.lrcContent
        out == result.value
        qualifying == { i \in 1..Len(lines) : Qualifies(lines[i]) }
    IN  IF ~result.done THEN Len(parseLrc(lines)) \in 0..Len(lines)
        ELSE /\ Len(out) = Cardinality(qualifying)
             /\ Len(out) <= Len(lines)
             /\ \A k \in 1..Len(out) :
                  /\ out[k].text # << >>
                  /\ Head(out[k].text) # Space
                  /\ out[k].text[Len(out[k].text)] # Space
             /\ \E f \in [1..Len(out) -> qualifying] :
                  /\ \A k, l \in 1..Len(out) : k # l => f[k] # f[l]
                  /\ \A k \in 1..Len(out) :
                       out[k].time = totalSeconds(lines[f[k]][FirstTag(lines[f[k]])])

W13_SomeLinesRejected ==
  /\ call.fn = "parseLrc" /\ result.done
  /\ Len(call.lrcContent) = 3 /\ Len(result.value) = 1
  /\ \E i, j \in 1..3 :
       /\ HasTag(call.lrcContent[i]) /\ ~Qualifies(call.lrcContent[i])
       /\ ~HasTag(call.lrcContent[j]) /\ call.lrcContent[j] # << >>

\* the value of a two- or three-digit string, digit by digit
Decimal(d) == IF Len(d) = 2 THEN 10 * d[1] + d[2] ELSE 100 * d[1] + 10 * d[2] + d[3]
\* mm*60 + ss + f/100 for two digits, mm*60 + ss + f/1000 for three, in milliseconds
TagMillis(tag) ==
  Decimal(tag.mm) * 60000 + Decimal(tag.ss) * 1000
    + (IF Len(tag.frac) = 2 THEN 10 * Decimal(tag.frac) ELSE Decimal(tag.frac))

\* C14: the time of a cue is mm*60 + ss + f/100 for a two-digit fraction f and
\* mm*60 + ss + f/1000 for a three-digit one, with "." or ":" before f;
\* [00:01.50] and [00:01:500] both give 1.5 s
C14_CueTimeFromTag ==
  call.fn = "parseLrc" /\ result.done =>
    LET lines == call.lrcContent
        out == result.value
        qualifying == { i \in 1..Len(lines) : Qualifies(lines[i]) }
    IN  /\ \A i \in qualifying :
             \E k \in 1..Len(out) :
               /\ out[k].time = TagMillis(lines[i][FirstTag(lines[i])])
               /\ out[k].text = Trim(Replace(lines[i]))
        /\ \A i \in qualifying :
             LET tag == lines[i][FirstTag(lines[i])]
             IN  tag.mm = << 0, 0 >> /\ tag.ss = << 0, 1 >>
                 /\ tag.frac \in { << 5, 0 >>, << 5, 0, 0 >> }
                 => \E k \in 1..Len(out) :
                      out[k].time = 1500 /\ out[k].text = Trim(Replace(lines[i]))

W14_BothFractionLengths ==
  /\ call.fn = "parseLrc" /\ result.done
  /\ Len(result.value) = 3
  /\ result.value[1].time = 1500 /\ result.value[1].text = << Text("uno") >>
  /\ result.value[2].time = 1500 /\ result.value[2].text = << Text("one") >>
  /\ result.value[3].time = 60050

\* the number of updates that take the interpolator from a distance onto its target
RECURSIVE TicksFrom(_, _)
TicksFrom(distance, n) ==
  IF distance = 0 \/ n = MaxTicks THEN n
  ELSE TicksFrom(Abs(InterpStepAt(FineScale, distance, 0)), n + 1)

SettleTicks == TicksFrom(SNAP_DISTANCE * FineScale, 0)

\* C15: with a fixed activeIndex at most 10 away, repeated ticks bring
\* smoothIndex within 0.001 of activeIndex and then exactly onto it, within a
\* number of ticks that does not depend on the start value; from a distance
\* of 15 a single tick sets smoothIndex to activeIndex
C15_InterpolatorSettles ==
  call.fn = "interpolate" /\ result.done =>
    LET target == call.activeIndex * FineScale
        distance == Abs(target - call.smoothIndex)
        run == result.value
    IN  /\ SettleTicks < MaxTicks
        /\ distance <= SNAP_DISTANCE * FineScale /\ run.ticks >= SettleTicks
             => run.smoothIndex = target
        /\ distance <= SNAP_DISTANCE * FineScale
             /\ run.smoothIndex = target /\ run.previous # target
             => Abs(target - run.previous) * MICRO_INVERSE < FineScale
        /\ distance = 15 * FineScale => run.smoothIndex = target

W15_SettledFromThree ==
  /\ call = [fn |-> "interpolate", smoothIndex |-> 0, activeIndex |-> 3]
  /\ result.done
  /\ result.value.ticks > 10 /\ result.value.ticks < SettleTicks
  /\ result.value.smoothIndex = 3 * FineScale
  /\ result.value.previous \notin {0, 3 * FineScale}

\* a colour string of three or six hex digits
ValidHex(hex) ==
  Len(hex.chars) \in {3, 6} /\ \A i \in 1..Len(hex.chars) : hex.chars[i] \in 0..15
Between(x, a, b) == (a <= x /\ x <= b) \/ (b <= x /\ x <= a)

\* C16: for valid hex colours, interpolateColor of a colour with itself is
\* that colour at every factor, a factor of 0 or below gives the first colour
\* and a factor of 1 or above the second (a factor outside [0,1] acts as the
\* clamped one), and every channel of the result is an integer in 0..255
\* between the two input channels
C16_InterpolateColor ==
  call.fn = "interpolateColor" /\ result.done
    /\ ValidHex(call.color1) /\ ValidHex(call.color2) =>
    LET a == hexToRgb(call.color1)
        b == hexToRgb(call.color2)
        out == result.value
    IN  /\ a = b => out = a
        /\ call.factor <= 0 => out = a
        /\ call.factor >= FactorDen => out = b
        /\ out.r \in 0..255 /\ out.g \in 0..255 /\ out.b \in 0..255
        /\ Between(out.r, a.r, b.r) /\ Between(out.g, a.g, b.g) /\ Between(out.b, a.b, b.b)

W16_BlendedColour ==
  /\ call.fn = "interpolateColor" /\ result.done
  /\ call.color1 = Hex(TRUE, << 1, 2, 3 >>) /\ call.color2 = Hex(TRUE, << 15, 15, 8, 0, 0, 0 >>)
  /\ call.factor = 1
  /\ result.value \notin { hexToRgb(call.color1), hexToRgb(call.color2) }

RECURSIVE Flatten(_)
Flatten(lines) == IF lines = << >> THEN << >> ELSE Head(lines) \o Flatten(Tail(lines))

\* C17: every line getWrappedLines returns with more than one word measures
\* below maxWidth, so only a line of a single word can reach or exceed
\* maxWidth, and the lines are the words of the text, whole and in order
C17_WrappedLinesFit ==
  call.fn = "getWrappedLines" /\ result.done =>
    LET out == result.value
    IN  /\ \A k \in 1..Len(out) :
             /\ Len(out[k]) >= 1
             /\ Len(out[k]) > 1 => measureText(out[k], call.spaceWidth) < call.maxWidth
             /\ measureText(out[k], call.spaceWidth) >= call.maxWidth => Len(out[k]) = 1
        /\ Flatten(out) = call.text

W17_WrappedWithLongWord ==
  /\ call.fn = "getWrappedLines" /\ result.done
  /\ \A i \in 1..Len(call.text) : call.text[i] # << >>
  /\ Len(result.value) = 2
  /\ Len(result.value[1]) = 2
  /\ measureText(result.value[1], call.spaceWidth) = call.maxWidth - 1
  /\ Len(result.value[2]) = 1
  /\ measureText(result.value[2], call.spaceWidth) >= call.maxWidth

\* C18: two calls of drawBokeh with the same width, height, time and bokeh
\* settings issue the same sequence of exactly 15 particle draw commands,
\* particle i with seed (i*1337) mod 1000, whatever state the canvas was left
\* in before either call
C18_BokehDeterministic ==
  call.fn = "drawBokeh" /\ result.done =>
    /\ \A n \in 1..Len(result.value) :
         /\ Len(result.value[n]) = 15
         /\ \A i \in 0..14 : result.value[n][i + 1].seed = (i * 1337) % 1000
    /\ Len(result.value) = 2 => result.value[1] = result.value[2]

W18_TwoCallsDifferentCanvas ==
  /\ call.fn = "drawBokeh" /\ Len(Drawn) = 2
  /\ call.ctx[1].fillStyle # call.ctx[2].fillStyle
  /\ call.ctx[1].globalCompositeOperation # call.ctx[2].globalCompositeOperation
  /\ call.time > 0
  /\ result.value[2][2].seed = 337

\* a step in which startRecording gets its recorder started
SuccessfulStart ==
  /\ Len(recorders') = Len(recorders) + 1
  /\ recorders'[Len(recorders')] = "recording"

\* C19: a successful start leaves the audio at position 0 and paused,
\* smoothIndex 0, the intro start timestamp equal to the clock, the new
\* recorder recording and the new silence oscillator running, no download
\* artifact, isRecording true and the phase intro
C19_StateAfterStart ==
  [][SuccessfulStart =>
       /\ audio'.currentTime = 0 /\ audio'.paused
       /\ smoothIndexRef' = 0
       /\ introStartTimeRef' = now'
       /\ mediaRecorderRef' = Len(recorders') /\ recorders'[mediaRecorderRef'] = "recording"
       /\ silenceOscRef' = Len(oscs') /\ Len(oscs') = Len(oscs) + 1 /\ oscs'[silenceOscRef']
       /\ chunksRef' = << >>
       /\ downloadUrl' = NoUrl
       /\ isRecording' /\ recordingPhase' = "intro"]_vars

W19_SecondSessionStarted ==
  /\ recorders = << "inactive", "recording" >> /\ mediaRecorderRef = 2
  /\ oscs = << FALSE, TRUE >> /\ silenceOscRef = 2
  /\ downloadUrl = NoUrl /\ chunksRef = << >>
  /\ isRecording /\ recordingPhase = "intro"
  /\ audio = [paused |-> TRUE, currentTime |-> 0] /\ audioLoaded
  /\ smoothIndexRef = 0 /\ introStartTimeRef = now /\ now > 0

\* the oscillator silenceOscRef holds has been started and not stopped
SilenceOscillatorRunning == silenceOscRef # 0 /\ oscs[silenceOscRef]
\* the audio context renders, so what is connected to the capture's
\* destination reaches it
CaptureSignalLive == SilenceOscillatorRunning /\ ctxState = "running"
OscillatorStopped == \E k \in 1..Len(oscs) : oscs[k] /\ ~oscs'[k]
RecorderStopHandler == \E k \in 1..MaxStarts, hasData \in BOOLEAN : RecorderStopTask(k, hasData)

\* C20: whenever the phase is intro a silence oscillator is running into the
\* capture's audio destination, so that the capture has a live audio signal
\* all through the intro, and an oscillator is stopped only by the recorder's
\* stop handler
C20_IntroKeepsSignal ==
  /\ [](recordingPhase = "intro" => CaptureSignalLive)
  /\ [][OscillatorStopped => RecorderStopHandler]_vars

\* C21: one interpolator step sets smoothIndex to activeIndex when
\* |diff| > 10 or |diff| < 0.001 and otherwise adds diff * 0.1 (a tenth of
\* diff, rounded to the next fixed-point unit away from zero); at exactly
\* |diff| = 10 and at exactly |diff| = 0.001 it damps
C21_InterpolatorBranches ==
  call.fn = "interpolate" /\ result.done =>
    LET target == call.activeIndex * FineScale
        before == result.value.previous
        after == result.value.smoothIndex
        diff == target - before
        damped == /\ after # target
                  /\ (after - before) * diff > 0
                  /\ Abs(10 * (after - before) - diff) < 10
    IN  /\ Abs(diff) > 10 * FineScale => after = target
        /\ Abs(diff) * 1000 < FineScale => after = target
        /\ Abs(diff) <= 10 * FineScale /\ Abs(diff) * 1000 >= FineScale => damped
        /\ Abs(diff) = 10 * FineScale => after = before + diff \div 10
        /\ Abs(diff) * 1000 = FineScale => damped

W21_DampedAtThousandth ==
  /\ call.fn = "interpolate" /\ result.done
  /\ result.value.ticks > 1
  /\ Abs(call.activeIndex * FineScale - result.value.previous) * 1000 = FineScale
  /\ result.value.smoothIndex # call.activeIndex * FineScale

\* C22: every interpolator step leaves smoothIndex between its previous
\* value and the active index, both included, and over a fixed timeline,
\* started from 0, smoothIndex stays within [0, max(0, cueCount - 1)]
\* through any sequence of ticks and seeks
C22_NoOvershoot ==
  /\ call.fn = "interpolate" /\ result.done =>
       Between(result.value.smoothIndex, result.value.previous,
               call.activeIndex * FineScale)
  /\ call.fn = "scroll" /\ result.done =>
       /\ Between(result.value.smoothIndex, result.value.previous,
                  result.value.activeIndex * FineScale)
       /\ result.value.smoothIndex >= 0
       /\ result.value.smoothIndex
            <= Max(0, Len(parseLrc(call.lrcContent)) - 1) * FineScale

W22_ScrolledBackAfterSnap ==
  /\ call.fn = "scroll" /\ result.done
  /\ Len(parseLrc(call.lrcContent)) = 12
  /\ result.value.activeIndex = 1
  /\ result.value.previous > 10 * FineScale /\ result.value.previous < 11 * FineScale
  /\ result.value.smoothIndex < result.value.previous

\* a commit that hands a new timeline to the animate closure
TimelineInstalled == view'.lyrics # view.lyrics

\* C23: the first frame composed with a newly loaded timeline starts its
\* interpolation step from smoothIndex 0: when the re-render installs the
\* timeline in the tick closure smoothIndexRef is 0, whatever ticks ran with
\* the old timeline between the load callback and that re-render
C23_NewTimelineStartsAtZero ==
  [][TimelineInstalled => smoothIndexRef' = 0]_vars

\* an intro frame: the rendered phase is intro and the intro has not elapsed
IntroFrame == TickIntro /\ TickElapsed <= introDuration

\* a later frame of the same intro
SameIntro ==
  /\ IntroFrame /\ IntroFrame'
  /\ introStartTimeRef' = introStartTimeRef

C25_TitleOrLyrics ==
  LET drawn == renderFrame(TickFrame)
  IN  /\ ~(drawn.title /\ drawn.lines # {})
      /\ TickFrame.isIntro => (drawn.title /\ drawn.lines = {})
      /\ ~TickFrame.isIntro => ~drawn.title
      /\ TickFinished => (~drawn.title /\ drawn.lines = {})

\* the transition tick has run over a loaded timeline
W25_TransitionFrameComposed ==
  /\ TickFinished /\ recordingPhase = "recording"
  /\ Len(view.lyrics) > 0 /\ audioLoaded
  /\ renderFrame(TickFrame).lines = {}
\* a re-render has replaced the animate callback while a callback was pending
W26_CallbackReplaced ==
  /\ mounted /\ rafPending = {requestRef}
  /\ view.recordingPhase = "recording" /\ Len(view.lyrics) > 0
  /\ smoothIndexRef > 0

\* C26: at most one animation-frame callback is pending at any moment, over
\* every interleaving of frame callbacks and of re-renders that replace the
\* animate callback, and none is pending once the component is torn down
C26_OneFramePending ==
  /\ Cardinality(rafPending) <= 1
  /\ ~mounted => rafPending = {}
\* C27: in every state in which the pending state updates have been rendered,
\* isRecording is true exactly when the phase is intro or recording; after the
\* stop handler no tick, stale or not, makes the phase non-idle while
\* isRecording is false
C27_RecordingFlagMatchesPhase ==
  ~RenderPending => (isRecording <=> recordingPhase \in {"intro", "recording"})
\* C28: whenever the phase is idle and no call of startRecording is suspended,
\* no silence oscillator started by startRecording is running; a start that
\* fails in the recorder try block leaves no running oscillator
C28_NoOscillatorWhenIdle ==
  (recordingPhase = "idle" /\ awaiting = 0) => RunningOscillators = {}
\* the chunks a download artifact was built from
ArtifactChunks(url) == { url[i] : i \in 2..Len(url) }

\* C29: in every state whose phase is intro or recording the download URL is
\* null; an artifact appears only when a recorder's stop handler finalizes its
\* session, it is built only from chunks delivered by that recorder, and the
\* chunk buffer is empty at session start and after finalize
C29_ArtifactOnlyAfterFinalize ==
  /\ [](recordingPhase \in {"intro", "recording"} => downloadUrl = NoUrl)
  /\ [][ /\ (downloadUrl' # downloadUrl /\ downloadUrl' # NoUrl) =>
              \E k \in 1..MaxStarts :
                /\ \E hasData \in BOOLEAN : RecorderStopTask(k, hasData)
                /\ ArtifactChunks(downloadUrl') \subseteq {k}
                /\ chunksRef' = << >>
         /\ SuccessfulStart => chunksRef' = << >> ]_vars
\* C30: at the intro->recording transition the audio position is 0, so the
\* audio of a recording starts from the beginning of the track, whatever
\* seek-bar, transport or file-load events occurred during the intro
C30_TransitionAtTrackStart ==
  [][(recordingPhase = "intro" /\ recordingPhase' = "recording")
       => (audio.currentTime = 0 /\ audio'.currentTime = 0)]_vars
====
